---------------------------- MODULE Spec2Model ----------------------------
(***************************************************************************)
(* A model of the quiz execution engine of llm_pop_quiz_bench: the         *)
(* create-run flow of the web API (create_run, _run_and_report), the       *)
(* engine (run_quiz), the provider adapters' send with its tenacity retry  *)
(* loop, the prompt renderer, the response parser and the SQLite store.    *)
(*                                                                         *)
(* Python strings are sequences of segments [c, n]: the first n characters *)
(* of the literal (or input text) named c.  Slicing s[:k] and len(s) are   *)
(* computed on the segments, so a truncation is visible in the value.      *)
(* A model reply is a sequence of JSON-level tokens.                       *)
(***************************************************************************)
EXTENDS Integers, Sequences, FiniteSets, TLC

VARIABLES
    runs,                \* table runs: run_id -> row
    results,             \* table results: rows in insertion (id) order
    quizzes,             \* table quizzes: quiz_id -> row
    utc_now,             \* datetime.now(timezone.utc), as a counter
    pc,                  \* position of the background task of the run
    req,                 \* the RunRequest accepted by create_run
    use_mocks,           \* LLM_POP_QUIZ_ENV = "mock"
    run_id,              \* the run's id (uuid4().hex)
    adapters,            \* the adapter list of the run
    quiz,                \* the quiz file create_run writes and run_quiz loads
    adapter_i,           \* run_quiz: index of the adapter of the outer loop
    idx,                 \* run_quiz: question number of the inner loop
    model_records,       \* run_quiz: model_records
    successful_adapters, \* run_quiz: successful_adapters
    failed_adapters,     \* run_quiz: failed_adapters
    attempt_number,      \* send: tenacity's attempt number
    last_attempt,        \* send: the exception of the last failed attempt
    elapsed,             \* time.perf_counter() since run_quiz took `start`, ms
    start_time,          \* send: the adapter's own start (or start_time)
    resp,                \* the ChatResponse returned by send
    exc,                 \* the exception raised into run_quiz's inner try
    calls,               \* history: the adapter.send calls of the run
    resolved,            \* history: how each adapter.send call ended
    http_log,            \* history: the HTTP attempts of the current send
    assets,              \* table assets: rows in insertion (id) order
    run_ids,             \* the run ids a store function returned to the server
    report_tasks         \* the _report_only background tasks of the server

vars == << runs, results, quizzes, utc_now, pc, req, use_mocks, run_id,
           adapters, quiz, adapter_i, idx, model_records, successful_adapters,
           failed_adapters, attempt_number, last_attempt, elapsed,
           start_time, resp, exc, calls, resolved, http_log, assets, run_ids,
           report_tasks >>

store_vars == << runs, results, quizzes, utc_now >>
loop_vars == << adapter_i, idx, model_records, successful_adapters,
                failed_adapters >>
send_vars == << attempt_number, last_attempt, elapsed, start_time, resp, exc,
                http_log >>
task_vars == << req, use_mocks, run_id, adapters, quiz >>
server_vars == << assets, run_ids, report_tasks >>

-----------------------------------------------------------------------------
(* Bounds of the model. *)

MaxQuestions == 2

-----------------------------------------------------------------------------
(* Python strings. *)

Lit(c, n) == << [c |-> c, n |-> n] >>

EmptyStr == << >>

RECURSIVE StrLen(_)
StrLen(s) == IF s = << >> THEN 0 ELSE Head(s).n + StrLen(Tail(s))

\* s[:k]
RECURSIVE Prefix(_, _)
Prefix(s, k) ==
    IF s = << >> \/ k <= 0 THEN << >>
    ELSE IF Head(s).n <= k
         THEN << Head(s) >> \o Prefix(Tail(s), k - Head(s).n)
         ELSE << [c |-> Head(s).c, n |-> k] >>

\* needle in hay
Contains(hay, needle) ==
    \/ needle = << >>
    \/ \E i \in 1..Len(hay) :
          /\ i + Len(needle) - 1 <= Len(hay)
          /\ SubSeq(hay, i, i + Len(needle) - 1) = needle

\* Python's None where a str is expected (JSON null).
NoneStr == << [c |-> "None", n |-> 0] >>

\* Optional[int]: None is {}, the integer i is {i}.
NoneInt == {}
SomeInt(i) == {i}

-----------------------------------------------------------------------------
(* Reply texts and json.loads.  A text is a sequence of tokens: "{", "}",  *)
(* a "key": "value" member, a bare number, whitespace, a word of prose.    *)

Tok(t) == [t |-> t, k |-> "", v |-> EmptyStr]
Member(k, v) == [t |-> "member", k |-> k, v |-> v]

LBrace == Tok("{")
RBrace == Tok("}")
Space == Tok(" ")
Word == Tok("word")
Number == Tok("5")

\* Arrays nested deeper than the interpreter's recursion limit ("[[[[..."),
\* as a document and as the value of an object's member.
Deep == Tok("[[")
DeepMember == Tok("deepmember")

\* What json.loads returns or raises: kind is "dict", "int", "error"
\* (json.JSONDecodeError) or "raise" (RecursionError, which is not a
\* JSONDecodeError); d holds a dict's items.
NoDict == [k \in {} |-> EmptyStr]
JsonError == [kind |-> "error", d |-> NoDict]
JsonRaise == [kind |-> "raise", d |-> NoDict]

\* The members of an object, a later duplicate key replacing an earlier one.
RECURSIVE DictOf(_)
DictOf(members) ==
    IF members = << >> THEN NoDict
    ELSE LET m == members[Len(members)]
             rest == DictOf(SubSeq(members, 1, Len(members) - 1))
         IN  [k \in DOMAIN rest \cup {m.k} |->
                 IF k = m.k THEN m.v ELSE rest[k]]

\* text.strip()
RECURSIVE LStrip(_)
LStrip(text) ==
    IF text # << >> /\ Head(text) = Space THEN LStrip(Tail(text)) ELSE text

RECURSIVE RStrip(_)
RStrip(text) ==
    IF text # << >> /\ text[Len(text)] = Space
    THEN RStrip(SubSeq(text, 1, Len(text) - 1))
    ELSE text

Strip(text) == RStrip(LStrip(text))

\* json.loads(s): whitespace around the document and between the tokens of
\* an object is insignificant.  The scanner reads from the left: it raises
\* RecursionError when it comes to the deep nesting before a syntax error.
JsonLoads(s) ==
    LET doc == SelectSeq(s, LAMBDA tk : tk # Space)
    IN  IF doc = << Number >> THEN [kind |-> "int", d |-> NoDict]
        ELSE IF doc # << >> /\ doc[1] = Deep THEN JsonRaise
        ELSE IF /\ Len(doc) >= 2
                /\ doc[1] = LBrace
                /\ \E i \in 2..Len(doc) :
                      /\ doc[i] = DeepMember
                      /\ \A j \in 2..(i - 1) : doc[j].t = "member"
             THEN JsonRaise
        ELSE IF /\ Len(doc) >= 2
                /\ doc[1] = LBrace
                /\ doc[Len(doc)] = RBrace
                /\ \A i \in 2..(Len(doc) - 1) : doc[i].t = "member"
             THEN [kind |-> "dict",
                   d |-> DictOf(SubSeq(doc, 2, Len(doc) - 1))]
             ELSE JsonError

\* text.find("{") and text.rfind("}") as 1-based positions, 0 for -1.
Find(text, tk) ==
    IF \E i \in 1..Len(text) : text[i] = tk
    THEN CHOOSE i \in 1..Len(text) :
            text[i] = tk /\ \A j \in 1..(i - 1) : text[j] # tk
    ELSE 0

RFind(text, tk) ==
    IF \E i \in 1..Len(text) : text[i] = tk
    THEN CHOOSE i \in 1..Len(text) :
            text[i] = tk /\ \A j \in (i + 1)..Len(text) : text[j] # tk
    ELSE 0

\* parse_choice_json(text): kind "none" is the return value None; kind
\* "raise" is an exception of json.loads that neither except clause catches.
ParseNone == [kind |-> "none", d |-> NoDict]

\* A parser without the extraction of the snippet.
parse_choice_json_strict(text) ==
    LET whole == JsonLoads(Strip(text))
    IN  IF whole.kind # "error" THEN whole ELSE ParseNone

parse_choice_json(text) ==
    LET whole == JsonLoads(Strip(text))
        start == Find(text, LBrace)
        end == RFind(text, RBrace)
        snippet == JsonLoads(SubSeq(text, start, end))
    IN  IF whole.kind # "error" THEN whole
        ELSE IF start # 0 /\ end # 0
             THEN IF snippet.kind # "error" THEN snippet ELSE ParseNone
             ELSE ParseNone

-----------------------------------------------------------------------------
(* The prompt renderer. *)

ascii_uppercase ==
    << "A", "B", "C", "D", "E", "F", "G", "H", "I", "J", "K", "L", "M",
       "N", "O", "P", "Q", "R", "S", "T", "U", "V", "W", "X", "Y", "Z" >>

\* A context that numbers the questions from the last one.
PromptContext_Reversed(title, q_num, q_total, q) ==
    [quiz_title |-> title, q_num |-> q_total - q_num + 1, q_total |-> q_total,
     question_text |-> q.text, options |-> q.options]

\* PromptContext
PromptContext(title, q_num, q_total, q) ==
    [quiz_title |-> title, q_num |-> q_num, q_total |-> q_total,
     question_text |-> q.text, options |-> q.options]

\* A renderer with the four letters of a fixed instruction.
render_prompt_four(ctx) ==
    [q_num |-> ctx.q_num,
     q_total |-> ctx.q_total,
     question_text |-> ctx.question_text,
     options_text |-> [i \in 1..Len(ctx.options) |->
                          [letter |-> ascii_uppercase[i],
                           option_text |-> ctx.options[i]]],
     valid_choices |-> << "A", "B", "C", "D" >>]

\* render_prompt(ctx): the fields TEMPLATE.format fills in.  The header is
\* "Question {q_num}/{q_total}: {question_text}", options_text has one line
\* "{letter}) {option_text}" per option, valid_choices the letters.
render_prompt(ctx) ==
    [q_num |-> ctx.q_num,
     q_total |-> ctx.q_total,
     question_text |-> ctx.question_text,
     options_text |-> [i \in 1..Len(ctx.options) |->
                          [letter |-> ascii_uppercase[i],
                           option_text |-> ctx.options[i]]],
     valid_choices |-> [i \in 1..Len(ctx.options) |-> ascii_uppercase[i]]]

-----------------------------------------------------------------------------
(* The configured models and their adapters. *)

Providers == {"openai", "anthropic", "google", "grok", "openrouter"}

\* One configured model per provider (ModelConfig: id, provider, model),
\* and one more whose API key is not in the environment.
ModelConfigs ==
    [gpt    |-> [provider |-> "openai",     model |-> Lit("gpt-4o", 6)],
     claude |-> [provider |-> "anthropic",  model |-> Lit("claude-3-5", 10)],
     gemini |-> [provider |-> "google",     model |-> Lit("gemini-pro", 10)],
     grok   |-> [provider |-> "grok",       model |-> Lit("grok-2", 6)],
     router |-> [provider |-> "openrouter", model |-> Lit("or/model", 8)],
     nokey  |-> [provider |-> "openai",     model |-> Lit("gpt-4o-mini", 11)]]

ModelIds == DOMAIN ModelConfigs

\* ModelConfig.create_adapter: the adapter's class; MockAdapter in mock mode.
AdapterClass(id, mocks) ==
    IF mocks THEN "mock" ELSE ModelConfigs[id].provider

\* MockAdapter.send's canned reply.
\* A canned reply that is no JSON.
MockText_Prose == << Word, Space, Word >>

MockText ==
    << LBrace, Member("choice", Lit("C", 1)),
       Member("reason", Lit("Mock response.", 14)), RBrace >>

\* stop_after_attempt(3)
StopAfterAttempt == 3

\* wait_exponential(multiplier=1, min=1, max=...): seconds slept after the
\* failed attempt n (exp_base 2).
WaitMin == 1
WaitMax(provider) == IF provider \in {"google", "grok"} THEN 10 ELSE 4

Max2(a, b) == IF a >= b THEN a ELSE b
Min2(a, b) == IF a <= b THEN a ELSE b

wait_exponential(provider, n) ==
    Max2(Max2(0, WaitMin), Min2(2 ^ (n - 1), WaitMax(provider)))

StatusStr(status) ==
    CASE status = 401 -> Lit("401", 3)
      [] status = 403 -> Lit("403", 3)
      [] status = 404 -> Lit("404", 3)
      [] status = 429 -> Lit("429", 3)
      [] OTHER -> Lit("500", 3)

\* error.get("type", "unknown_error") of the provider's error body.
ErrorType == Lit("server_error", 12)

\* _parse_api_error / _format_api_error: the status-classified message; each
\* literal segment has the length of the f-string's text in the source.
\* (The provider's own message holds neither "model" nor "organization".)
ParseApiError(provider, status, model, error_message) ==
    CASE provider = "openai" ->
            ( CASE status = 404 -> Lit("openai 404", 108) \o error_message
                [] status = 401 -> Lit("openai 401", 115) \o error_message
                [] status = 403 -> Lit("openai 403 a", 31) \o model
                                   \o Lit("openai 403 b", 177) \o error_message
                [] status = 429 -> Lit("openai 429", 118) \o error_message
                [] OTHER -> Lit("openai error a", 21) \o StatusStr(status)
                            \o Lit("openai error b", 13) \o model
                            \o Lit("openai error c", 20) \o ErrorType
                            \o Lit("openai error d", 15) \o error_message )
      [] provider = "grok" ->
            ( CASE status = 404 -> Lit("grok 404", 110) \o error_message
                [] status = 401 -> Lit("grok 401", 179) \o error_message
                [] status = 403 -> Lit("grok 403 a", 36) \o model
                                   \o Lit("grok 403 b", 166) \o error_message
                [] status = 429 -> Lit("grok 429", 118) \o error_message
                [] OTHER -> Lit("grok error a", 19) \o StatusStr(status)
                            \o Lit("grok error b", 13) \o model
                            \o Lit("grok error c", 20) \o ErrorType
                            \o Lit("grok error d", 15) \o error_message )
      [] provider = "google" ->
            ( CASE status = 401 -> Lit("google 401", 191) \o error_message
                [] status = 403 -> Lit("google 403 a", 38) \o model
                                   \o Lit("google 403 b", 198) \o error_message
                [] status = 404 -> Lit("google 404 a", 17) \o model
                                   \o Lit("google 404 b", 165) \o error_message
                [] status = 429 -> Lit("google 429", 115) \o error_message
                [] OTHER -> Lit("google error a", 21) \o StatusStr(status)
                            \o Lit("google error b", 13) \o model
                            \o Lit("google error c", 17) \o error_message )
      [] OTHER ->
            ( CASE status = 401 -> Lit("openrouter 401", 69)
                [] OTHER -> Lit("openrouter error a", 24) \o StatusStr(status)
                            \o Lit("openrouter error b", 3) \o error_message )

\* The message of the "except Exception" branch: a transport error.
RequestFailed(provider, model, text) ==
    LET n == CASE provider = "openai" -> 37
               [] provider = "grok" -> 35
               [] provider = "google" -> 37
               [] OTHER -> 41
    IN  Lit("API request failed for model '", n) \o model
        \o Lit("': ", 3) \o text

\* str() of httpx's HTTPStatusError, which AnthropicAdapter.send lets
\* through unwrapped: it names the status and not the provider's message.
HttpStatusErrorStr(status) ==
    Lit("Client error '", 14) \o StatusStr(status) \o Lit("' for url", 9)

\* The exception one failed HTTP attempt raises inside "with attempt".
AttemptException(provider, model, o) ==
    IF provider = "anthropic"
    THEN IF o.kind = "transport" THEN o.error_message
         ELSE HttpStatusErrorStr(o.status)
    ELSE IF o.kind = "transport"
         THEN RequestFailed(provider, model, o.error_message)
         ELSE ParseApiError(provider, o.status, model, o.error_message)

\* str() of the error resp.json() raises on a body that is not JSON.
JSONDecodeErrorStr == Lit("Expecting value: line 1 column 1 (char 0)", 41)

-----------------------------------------------------------------------------
(* Exceptions and ChatResponse. *)

NoException ==
    [type |-> "none", str |-> EmptyStr, has_last_attempt |-> FALSE,
     last_attempt |-> EmptyStr, has_cause |-> FALSE, cause |-> EmptyStr]

\* A RetryError that keeps neither the last attempt nor a cause.
RetryError_Bare(last) ==
    [type |-> "RetryError", str |-> Lit("RetryError[<Future>]", 20),
     has_last_attempt |-> FALSE, last_attempt |-> EmptyStr,
     has_cause |-> FALSE, cause |-> EmptyStr]

\* tenacity's RetryError: raised "from" the last attempt's exception.
RetryError(last) ==
    [type |-> "RetryError", str |-> Lit("RetryError[<Future>]", 20),
     has_last_attempt |-> TRUE, last_attempt |-> last,
     has_cause |-> TRUE, cause |-> last]

\* An exception raised directly, no cause and no context.
PlainException(type, text) ==
    [type |-> type, str |-> text, has_last_attempt |-> FALSE,
     last_attempt |-> EmptyStr, has_cause |-> FALSE, cause |-> EmptyStr]

\* _extract_actual_error(exception)
_extract_actual_error(exception) ==
    IF exception.has_last_attempt THEN exception.last_attempt
    ELSE IF exception.has_cause THEN exception.cause
    ELSE exception.str

ChatResponse(text, tokens_in, tokens_out, latency_ms) ==
    [text |-> text, tokens_in |-> tokens_in, tokens_out |-> tokens_out,
     latency_ms |-> latency_ms]

NoResponse == ChatResponse(<< >>, NoneInt, NoneInt, 0)

-----------------------------------------------------------------------------
(* The quiz and the store. *)

QuestionIds == << "Q1", "Q2", "Q3", "Q4" >>

OptionTexts == << "Coffee", "Tea", "Water" >>

\* Question i of the quiz: three options when i is odd, two when it is even.
Question(i) ==
    [id |-> QuestionIds[i],
     text |-> Lit(QuestionIds[i], 9),
     options |-> SubSeq(OptionTexts, 1, 2 + (i % 2))]

QuizDefinition(n) ==
    [id |-> "quiz1", title |-> "Quiz", questions |-> [i \in 1..n |-> Question(i)]]

\* A quiz file whose last question has no id: yaml.safe_load reads it, and
\* run_quiz does not validate what it loads.
MalformedQuiz(n) ==
    [id |-> "quiz1", title |-> "Quiz",
     questions |-> [i \in 1..n |->
                       IF i < n THEN Question(i)
                       ELSE [text |-> Question(i).text,
                             options |-> Question(i).options]]]

\* q["id"] does not raise KeyError.
HasId(q) == "id" \in DOMAIN q

KeyErrorStr == Lit("'id'", 4)

\* No quiz file.
NoQuiz == [id |-> "", title |-> "", questions |-> << >>]

NoSettings == [k \in {} |-> ""]

\* upsert_quiz(conn, quiz_def, quiz_yaml): on conflict the row's title and
\* yaml are replaced.
upsert_quiz(table, quiz_def) ==
    [q \in DOMAIN table \cup {quiz_def.id} |->
        IF q = quiz_def.id
        THEN [title |-> quiz_def.title, quiz_yaml |-> quiz_def]
        ELSE table[q]]

\* insert_run(conn, run_id, quiz_id, status, models, settings): INSERT OR
\* REPLACE of the whole row.
insert_run(table, id, quiz_id, status, models, settings, now) ==
    [r \in DOMAIN table \cup {id} |->
        IF r = id
        THEN [quiz_id |-> quiz_id, created_at |-> now, status |-> status,
              models |-> models, settings |-> settings]
        ELSE table[r]]

\* update_run_status(conn, run_id, status)
update_run_status(table, id, status) ==
    [r \in DOMAIN table |->
        IF r = id THEN [table[r] EXCEPT !.status = status] ELSE table[r]]

\* A row that names the model by its place in the adapter list.
ResultRow_ByPlace(id, quiz_id, model_id, row) ==
    [run_id |-> id, quiz_id |-> quiz_id,
     model_id |-> IF adapter_i = 1 THEN "first" ELSE model_id,
     question_id |-> row.question_id, choice |-> row.choice,
     reason |-> row.reason, additional_thoughts |-> row.additional_thoughts,
     refused |-> IF row.refused THEN 1 ELSE 0,
     latency_ms |-> row.latency_ms, tokens_in |-> row.tokens_in,
     tokens_out |-> row.tokens_out]

\* The row insert_results builds of one record.
ResultRow(id, quiz_id, model_id, row) ==
    [run_id |-> id, quiz_id |-> quiz_id, model_id |-> model_id,
     question_id |-> row.question_id, choice |-> row.choice,
     reason |-> row.reason, additional_thoughts |-> row.additional_thoughts,
     refused |-> IF row.refused THEN 1 ELSE 0,
     latency_ms |-> row.latency_ms, tokens_in |-> row.tokens_in,
     tokens_out |-> row.tokens_out]

\* The columns choice, reason and additional_thoughts are TEXT NOT NULL:
\* executemany raises sqlite3.IntegrityError on a row that holds None there.
IntegrityError(rows) ==
    \E i \in 1..Len(rows) :
        \/ rows[i].choice = NoneStr
        \/ rows[i].reason = NoneStr
        \/ rows[i].additional_thoughts = NoneStr

\* An insert that commits the first row only.
insert_results_partial(table, id, quiz_id, model_id, rows) ==
    table \o [i \in 1..Min2(1, Len(rows)) |->
                 ResultRow(id, quiz_id, model_id, rows[i])]

\* insert_results(conn, run_id, quiz_id, model_id, rows): one executemany
\* and one commit, so the rows of a model become visible together.
insert_results(table, id, quiz_id, model_id, rows) ==
    table \o [i \in 1..Len(rows) |-> ResultRow(id, quiz_id, model_id, rows[i])]

\* fetch_results(conn, run_id)
fetch_results(table, id) == SelectSeq(table, LAMBDA row : row.run_id = id)

\* The statuses of a run that is under way.
StaleStatuses == { "queued", "running", "reporting" }

\* A clean-up that fails every run that is not completed.
mark_stale_runs_failed_all(table, statuses, new_status) ==
    [run_ids |-> { r \in DOMAIN table : table[r].status # "completed" },
     runs |-> [r \in DOMAIN table |->
                  IF table[r].status # "completed"
                  THEN [table[r] EXCEPT !.status = new_status]
                  ELSE table[r]]]

\* mark_stale_runs_failed(conn, statuses, new_status): the ids the SELECT
\* returns (as a set; the rows come in no stated order) and the table
\* after the UPDATE, which is made only when there are such ids.
mark_stale_runs_failed(table, statuses, new_status) ==
    LET ids == { r \in DOMAIN table : table[r].status \in statuses }
    IN  [run_ids |-> ids,
         runs |-> IF statuses = {} \/ ids = {} THEN table
                  ELSE [r \in DOMAIN table |->
                           IF table[r].status \in statuses
                           THEN [table[r] EXCEPT !.status = new_status]
                           ELSE table[r]]]

\* A deletion that leaves the rows of results and assets in the store.
delete_quiz_rows_kept(store, quiz_id) ==
    LET ids == { r \in DOMAIN store.runs : store.runs[r].quiz_id = quiz_id }
    IN  [run_ids |-> ids,
         runs |-> [r \in DOMAIN store.runs \ ids |-> store.runs[r]],
         results |-> store.results,
         assets |-> store.assets,
         quizzes |-> [q \in DOMAIN store.quizzes \ { quiz_id } |->
                         store.quizzes[q]]]

\* delete_quiz(conn, quiz_id) on the four tables: the ids of the quiz's
\* runs, and the tables after the DELETEs.
delete_quiz(store, quiz_id) ==
    LET ids == { r \in DOMAIN store.runs : store.runs[r].quiz_id = quiz_id }
    IN  [run_ids |-> ids,
         runs |-> [r \in DOMAIN store.runs \ ids |-> store.runs[r]],
         results |-> SelectSeq(store.results,
                               LAMBDA row : row.run_id \notin ids),
         assets |-> SelectSeq(store.assets,
                              LAMBDA row : row.run_id \notin ids),
         quizzes |-> [q \in DOMAIN store.quizzes \ { quiz_id } |->
                         store.quizzes[q]]]

\* delete_assets_for_run(conn, run_id)
delete_assets_for_run(table, id) ==
    SelectSeq(table, LAMBDA row : row.run_id # id)

\* The lists a SELECT without ORDER BY may return for a set of ids.
ListsOf(ids) ==
    { l \in [1..Cardinality(ids) -> ids] : \A r \in ids : \E i \in DOMAIN l : l[i] = r }

-----------------------------------------------------------------------------
(* create_run. *)

\* os.environ: the models whose API key is set, and OPENROUTER_API_KEY.
ApiKeys == ModelIds \ { "nokey" }

OPENROUTER_API_KEY == TRUE

\* An availability test that does not look at the environment.
is_available_always(id, mocks) == TRUE

\* ModelConfig.is_available
is_available(id, mocks) == mocks \/ id \in ApiKeys

\* ModelConfigLoader.create_adapters: the ids of the adapters created.
create_adapters(model_ids, mocks) ==
    SelectSeq(model_ids, LAMBDA id : id \in ModelIds /\ is_available(id, mocks))

\* ModelConfig.create_adapter: the providers it has an adapter class for;
\* any other provider raises ValueError out of create_run.
CreatableProviders == { "openai", "anthropic", "google", "grok" }

model_groups ==
    [default |-> << "gpt", "gemini" >>, keyless |-> << "nokey", "gemini" >>]

\* The configured models in the order of the configuration file.
ConfiguredIds == << "gpt", "claude", "gemini", "grok", "router", "nokey" >>

\* ModelConfigLoader.get_available_models
get_available_models(mocks) ==
    SelectSeq(ConfiguredIds, LAMBDA id : is_available(id, mocks))

\* ModelConfigLoader.get_models_by_group, for a known group.
get_models_by_group(group_name) ==
    SelectSeq(model_groups[group_name], LAMBDA id : id \in ModelIds)

\* ModelConfigLoader.get_available_models_by_group, for a known group.
get_available_models_by_group(group_name, mocks) ==
    SelectSeq(get_models_by_group(group_name),
              LAMBDA id : is_available(id, mocks))

RunRequest(models, group, generate_report) ==
    [quiz_id |-> "quiz1", models |-> models, group |-> group,
     generate_report |-> generate_report]

\* No request: run_quiz is called by other code than _run_and_report.
NoRequest ==
    [quiz_id |-> "", models |-> << >>, group |-> "", generate_report |-> FALSE]

\* create_run(req, background_tasks): the request is accepted, the run row
\* inserted as queued and _run_and_report handed to the background tasks.
create_run(requests) ==
    /\ pc = "idle"
    /\ \E r \in requests, mocks \in BOOLEAN :
          LET model_ids == IF r.models # << >> THEN r.models
                           ELSE model_groups[r.group]
              made == create_adapters(model_ids, mocks)
              settings == IF r.group # "" THEN [group |-> r.group]
                          ELSE NoSettings
          IN  /\ r.quiz_id \in DOMAIN quizzes
              /\ r.models # << >> \/ r.group # ""
              /\ mocks \/ OPENROUTER_API_KEY
              /\ r.models = << >> => r.group \in DOMAIN model_groups
              /\ made # << >>
              /\ mocks \/ \A i \in 1..Len(made) :
                            ModelConfigs[made[i]].provider \in CreatableProviders
              /\ req' = r
              /\ use_mocks' = mocks
              /\ adapters' = made
              /\ run_id' = "run1"
              /\ quiz' = quizzes[r.quiz_id].quiz_yaml
              /\ runs' = insert_run(runs, "run1", r.quiz_id, "queued", made,
                                    settings, utc_now)
              /\ utc_now' = utc_now + 1
    /\ pc' = "queued"
    /\ UNCHANGED << results, quizzes, calls, resolved >>
    /\ UNCHANGED loop_vars
    /\ UNCHANGED send_vars
    /\ UNCHANGED server_vars

\* The benchmark command of the CLI: the models are looked up (an unknown
\* id is reported and skipped), those without API key skipped, and run_sync
\* called; the report is generated after it, outside the run's status.
benchmark(commands) ==
    /\ pc = "idle"
    /\ \E cmd \in commands, mocks \in BOOLEAN :
          LET selected ==
                  IF cmd.models # << >>
                  THEN SelectSeq(cmd.models, LAMBDA id : id \in ModelIds)
                  ELSE IF cmd.group # ""
                  THEN get_available_models_by_group(cmd.group, mocks)
                  ELSE IF get_available_models_by_group("default", mocks)
                             # << >>
                  THEN get_available_models_by_group("default", mocks)
                  ELSE get_available_models(mocks)
              made == SelectSeq(selected, LAMBDA id : is_available(id, mocks))
          IN  /\ (cmd.models = << >> /\ cmd.group # "") =>
                     cmd.group \in DOMAIN model_groups
              /\ made # << >>
              /\ mocks \/ \A i \in 1..Len(made) :
                            ModelConfigs[made[i]].provider \in CreatableProviders
              /\ req' = [quiz_id |-> "", models |-> cmd.models,
                         group |-> cmd.group, generate_report |-> TRUE]
              /\ use_mocks' = mocks
              /\ adapters' = made
    /\ quiz' = quizzes["quiz1"].quiz_yaml
    /\ run_id' = "run1"
    /\ pc' = "queued"
    /\ UNCHANGED << calls, resolved >>
    /\ UNCHANGED store_vars
    /\ UNCHANGED loop_vars
    /\ UNCHANGED send_vars
    /\ UNCHANGED server_vars

\* A caller that builds its adapters itself (as the runner's test does)
\* and awaits run_quiz(quiz_path, adapters, run_id, runtime_paths).
run_quiz_call(ids) ==
    /\ pc = "idle"
    /\ \E id \in ids :
          /\ adapters' = << id >>
          /\ quiz' = quizzes["quiz1"].quiz_yaml
    /\ req' = NoRequest
    /\ use_mocks' = FALSE
    /\ run_id' = "run1"
    /\ pc' = "queued"
    /\ UNCHANGED << calls, resolved >>
    /\ UNCHANGED store_vars
    /\ UNCHANGED loop_vars
    /\ UNCHANGED send_vars
    /\ UNCHANGED server_vars

-----------------------------------------------------------------------------
(* run_quiz. *)

CurrentAdapter == adapters[adapter_i]
CurrentClass == AdapterClass(CurrentAdapter, use_mocks)
CurrentModel == ModelConfigs[CurrentAdapter].model

QAResult(question_id, choice, reason, additional_thoughts, refused, latency_ms, tokens_in, tokens_out) ==
    [question_id |-> question_id, choice |-> choice, reason |-> reason,
     additional_thoughts |-> additional_thoughts, refused |-> refused,
     latency_ms |-> latency_ms, tokens_in |-> tokens_in,
     tokens_out |-> tokens_out]

\* dict.get(key, default)
Get(d, key, default) == IF key \in DOMAIN d THEN d[key] ELSE default

\* bool(value) of a str or None
Truthy(value) == StrLen(value) > 0

\* A default dict that does not mark the question refused.
UnparsedData_Answered ==
    [choice |-> EmptyStr, reason |-> EmptyStr,
     additional_thoughts |-> EmptyStr, refused |-> EmptyStr]

\* The dict run_quiz puts in place of an absent parse result.
UnparsedData ==
    [choice |-> EmptyStr, reason |-> EmptyStr,
     additional_thoughts |-> EmptyStr, refused |-> Lit("True", 4)]

\* "if not data": None and the empty dict are both falsy.
Falsy(parsed) ==
    parsed.kind = "none" \/ (parsed.kind = "dict" /\ DOMAIN parsed.d = {})

\* The record of a reply (lines 91-103), given the parsed data.
AnswerRecord(q, parsed, response, latency_ms) ==
    LET data == IF Falsy(parsed) THEN UnparsedData ELSE parsed.d
    IN  QAResult(q.id,
                 Get(data, "choice", EmptyStr),
                 Get(data, "reason", EmptyStr),
                 Get(data, "additional_thoughts", EmptyStr),
                 IF "refused" \in DOMAIN data THEN Truthy(data["refused"])
                 ELSE FALSE,
                 latency_ms, response.tokens_in, response.tokens_out)

\* The length the error text is cut to in the record's reason.
ReasonLimit == 150

\* A record of a failed question that holds the text of the exception
\* raised by send, not of its last attempt.
ErrorRecord_Outer(q, exception) ==
    QAResult(q.id, EmptyStr,
             Lit("Error: ", 7) \o Prefix(exception.str, ReasonLimit),
             EmptyStr, TRUE, 0, SomeInt(0), SomeInt(0))

\* The record of a failed question (lines 108-120).
ErrorRecord(q, exception) ==
    LET actual_error == _extract_actual_error(exception)
    IN  QAResult(q.id, EmptyStr,
                 Lit("Error: ", 7) \o Prefix(actual_error, ReasonLimit),
                 EmptyStr, TRUE, 0, SomeInt(0), SomeInt(0))

\* A dict of request parameters; the empty one.
NoParams == [k \in {} |-> ""]

\* ModelConfig.default_params of each configured model (defaultParams of
\* its entry, {} when the entry has none).
DefaultParams ==
    [gpt    |-> [temperature |-> "0.2"],
     claude |-> [temperature |-> "0.2", max_tokens |-> "1024"],
     gemini |-> [temperature |-> "0.2", maxOutputTokens |-> "2048"],
     grok   |-> [temperature |-> "0.5", max_tokens |-> "512"],
     router |-> NoParams,
     nokey  |-> [temperature |-> "0.2"]]

\* hasattr(adapter, 'default_params'): create_adapter sets the attribute,
\* an adapter built by another caller has none.
HasDefaultParams(id) ==
    use_mocks \/ ModelConfigs[id].provider \in CreatableProviders

\* _get_model_params(adapter)
_get_model_params(id) ==
    IF HasDefaultParams(id) THEN DefaultParams[id]
    ELSE [temperature |-> "0.2"]

\* dict.update: the keys of other replace those of d.
Update(d, other) ==
    [k \in DOMAIN d \cup DOMAIN other |->
        IF k \in DOMAIN other THEN other[k] ELSE d[k]]

\* One element of Google's contents; its text is a sequence of message
\* contents, joined by a blank line ("\n\n").
GoogleContent(pieces) == [parts |-> << [text |-> pieces] >>, role |-> "user"]

\* A conversion that leaves the system messages out.
RECURSIVE GoogleContents_UserOnly(_)
GoogleContents_UserOnly(messages) ==
    IF messages = << >> THEN << >>
    ELSE LET contents ==
                 GoogleContents_UserOnly(SubSeq(messages, 1, Len(messages) - 1))
             msg == messages[Len(messages)]
         IN  IF msg.role = "user"
             THEN Append(contents, GoogleContent(<< msg.content >>))
             ELSE contents

\* GoogleAdapter.send, lines 24-41: the messages as Google's contents, by
\* the loop over the messages from the first to the last.
RECURSIVE GoogleContents(_)
GoogleContents(messages) ==
    IF messages = << >> THEN << >>
    ELSE LET contents == GoogleContents(SubSeq(messages, 1, Len(messages) - 1))
             msg == messages[Len(messages)]
             last == Len(contents)
         IN  IF msg.role = "user"
             THEN Append(contents, GoogleContent(<< msg.content >>))
             ELSE IF msg.role = "system"
             THEN IF contents # << >> /\ contents[last].role = "user"
                  THEN [contents EXCEPT ![last] =
                           GoogleContent(<< msg.content >>
                                         \o contents[last].parts[1].text)]
                  ELSE Append(contents, GoogleContent(<< msg.content >>))
             ELSE contents

\* The JSON body a provider adapter's send posts.
Payload(class, model, messages, params) ==
    CASE class = "google" ->
           [contents |-> GoogleContents(messages),
            generationConfig |->
               [temperature |-> IF DOMAIN params # {}
                                THEN Get(params, "temperature", "0.7")
                                ELSE "0.7",
                maxOutputTokens |-> "1024",
                candidateCount |-> "1"]]
      [] class = "grok" ->
           Update([model |-> model, messages |-> messages,
                   temperature |-> "0.2", max_tokens |-> "256"], params)
      [] OTHER ->
           Update([model |-> model, messages |-> messages], params)

\* run_quiz up to the outer loop (lines 48-66): the quiz is loaded and
\* upserted and the run row replaced with status running.  Without the
\* quiz file read_text raises FileNotFoundError out of run_quiz.
run_quiz_begin ==
    /\ pc = "queued"
    /\ IF quiz = NoQuiz
       THEN /\ pc' = "crashed"
            /\ UNCHANGED << quizzes, runs, utc_now, successful_adapters,
                            failed_adapters, adapter_i >>
       ELSE /\ quizzes' = upsert_quiz(quizzes, quiz)
            /\ runs' = insert_run(runs, run_id, quiz.id, "running", adapters,
                                  NoSettings, utc_now)
            /\ utc_now' = utc_now + 1
            /\ successful_adapters' = << >>
            /\ failed_adapters' = << >>
            /\ adapter_i' = 1
            /\ pc' = "model"
    /\ UNCHANGED << results, idx, model_records, calls, resolved >>
    /\ UNCHANGED task_vars
    /\ UNCHANGED send_vars
    /\ UNCHANGED server_vars

\* "for adapter in adapters": the next adapter's model_records start empty.
begin_model ==
    /\ pc = "model"
    /\ adapter_i <= Len(adapters)
    /\ model_records' = << >>
    /\ idx' = 1
    /\ pc' = "question"
    /\ UNCHANGED << adapter_i, successful_adapters, failed_adapters, calls,
                    resolved >>
    /\ UNCHANGED store_vars
    /\ UNCHANGED task_vars
    /\ UNCHANGED send_vars
    /\ UNCHANGED server_vars

\* Lines 75-89: the prompt of question idx is rendered and adapter.send
\* called.  MockAdapter.send returns at once; a provider adapter enters its
\* retry loop.
send_question ==
    /\ pc = "question"
    /\ idx <= Len(quiz.questions)
    /\ LET ctx == PromptContext(quiz.title, idx, Len(quiz.questions),
                                quiz.questions[idx])
           messages == << [role |-> "user", content |-> render_prompt(ctx)] >>
           params == _get_model_params(CurrentAdapter)
       IN  calls' = Append(calls, [model |-> CurrentAdapter,
                                   messages |-> messages,
                                   params |-> params])
    /\ elapsed' = 0
    /\ start_time' = 0
    /\ attempt_number' = 1
    /\ last_attempt' = EmptyStr
    /\ http_log' = << >>
    /\ exc' = NoException
    /\ IF CurrentClass = "mock"
       THEN /\ resp' = ChatResponse(MockText, SomeInt(0), SomeInt(0), 0)
            /\ pc' = "reply"
       ELSE /\ resp' = NoResponse
            /\ pc' = "http"
    /\ UNCHANGED resolved
    /\ UNCHANGED store_vars
    /\ UNCHANGED task_vars
    /\ UNCHANGED loop_vars
    /\ UNCHANGED server_vars

-----------------------------------------------------------------------------
(* A provider adapter's send: one HTTP attempt of the retry loop. *)

\* What the provider does with one HTTP request: a transport error, or a
\* response with a status; a non-2xx response carries the provider's error
\* message, a 2xx response a body that is the expected JSON envelope around
\* the reply text, or is not JSON at all.  ms is the time the request takes.
HttpError(status, error_message) ==
    [kind |-> "http", status |-> status, error_message |-> error_message,
     body_ok |-> FALSE, text |-> << >>, ms |-> 5]

TransportError(error_message) ==
    [kind |-> "transport", status |-> 0, error_message |-> error_message,
     body_ok |-> FALSE, text |-> << >>, ms |-> 5]

HttpOk(text) ==
    [kind |-> "http", status |-> 200, error_message |-> EmptyStr,
     body_ok |-> TRUE, text |-> text, ms |-> 5]

HttpOkNotJson ==
    [kind |-> "http", status |-> 200, error_message |-> EmptyStr,
     body_ok |-> FALSE, text |-> << >>, ms |-> 5]

Is2xx(o) == o.kind = "http" /\ o.status = 200

\* The outcomes the provider may give to the attempt: in an environment
\* that does not recover, a call whose first attempt failed keeps failing.
Outcomes(env) ==
    IF attempt_number > 1 /\ ~env.recover
    THEN {o \in env.outcomes : ~Is2xx(o)}
    ELSE env.outcomes

\* One pass of "async for attempt in AsyncRetrying(...)": the request, and
\* tenacity's decision after it.  GoogleAdapter takes start_time and reads
\* the body inside the attempt; the other adapters take start before the
\* loop and read the body after it.
http_attempt(env) ==
    /\ pc = "http"
    /\ \E o \in Outcomes(env) :
          LET provider == CurrentClass
              begin == IF provider = "google" THEN elapsed ELSE start_time
              returned == elapsed + o.ms
              failed == ~Is2xx(o) \/ (provider = "google" /\ ~o.body_ok)
              failure == IF Is2xx(o) THEN JSONDecodeErrorStr
                         ELSE AttemptException(provider, CurrentModel, o)
          IN  /\ http_log' = Append(http_log, [attempt |-> attempt_number,
                                               outcome |-> o])
              /\ start_time' = begin
              /\ IF failed
                 THEN /\ last_attempt' = failure
                      /\ resp' = resp
                      /\ IF attempt_number >= StopAfterAttempt
                         THEN /\ exc' = RetryError(failure)
                              /\ elapsed' = returned
                              /\ attempt_number' = attempt_number
                              /\ pc' = "raised"
                         ELSE /\ exc' = exc
                              /\ elapsed' = returned + 1000 *
                                   wait_exponential(provider, attempt_number)
                              /\ attempt_number' = attempt_number + 1
                              /\ pc' = "http"
                 ELSE /\ last_attempt' = last_attempt
                      /\ attempt_number' = attempt_number
                      /\ elapsed' = returned
                      /\ IF o.body_ok
                         THEN /\ resp' = ChatResponse(o.text, NoneInt, NoneInt,
                                                      returned - begin)
                              /\ exc' = exc
                              /\ pc' = "reply"
                         ELSE /\ resp' = resp
                              /\ exc' = PlainException("JSONDecodeError",
                                                       JSONDecodeErrorStr)
                              /\ pc' = "raised"
    /\ UNCHANGED << calls, resolved >>
    /\ UNCHANGED store_vars
    /\ UNCHANGED task_vars
    /\ UNCHANGED loop_vars
    /\ UNCHANGED server_vars

-----------------------------------------------------------------------------
(* run_quiz, after adapter.send. *)

AttributeErrorStr == Lit("'int' object has no attribute 'get'", 35)

RecursionErrorStr == Lit("maximum recursion depth exceeded", 32)

\* How the call of the current question ended: by a return or by a raise.
Resolution(raised, exception) ==
    [model |-> CurrentAdapter, q_num |-> idx, raised |-> raised,
     resp |-> resp, exc |-> exception, last_attempt |-> last_attempt,
     attempts |-> Len(http_log), latency_ms |-> elapsed]

\* Lines 90-104: send returned.  data.get on a parsed JSON number raises
\* AttributeError into the except clause, and so does parse_choice_json
\* the exception of json.loads it does not catch, and q["id"] KeyError for
\* a question without id.
record_answer ==
    /\ pc = "reply"
    /\ LET latency_ms == elapsed
           data == parse_choice_json(resp.text)
       IN  IF data.kind \in { "int", "raise" } \/ ~HasId(quiz.questions[idx])
           THEN /\ exc' = IF data.kind = "raise"
                          THEN PlainException("RecursionError",
                                              RecursionErrorStr)
                          ELSE IF ~HasId(quiz.questions[idx])
                          THEN PlainException("KeyError", KeyErrorStr)
                          ELSE PlainException("AttributeError",
                                              AttributeErrorStr)
                /\ pc' = "raised"
                /\ UNCHANGED << model_records, idx, resolved >>
           ELSE /\ model_records' =
                      Append(model_records,
                             AnswerRecord(quiz.questions[idx], data, resp,
                                          latency_ms))
                /\ resolved' = Append(resolved, Resolution(FALSE, exc))
                /\ idx' = idx + 1
                /\ pc' = "question"
                /\ exc' = exc
    /\ UNCHANGED << adapter_i, successful_adapters, failed_adapters, calls,
                    attempt_number, last_attempt, elapsed, start_time, resp,
                    http_log >>
    /\ UNCHANGED store_vars
    /\ UNCHANGED task_vars
    /\ UNCHANGED server_vars

\* An except clause that writes no record for the failed question.
record_error_dropping ==
    /\ pc = "raised"
    /\ resolved' = Append(resolved, Resolution(TRUE, exc))
    /\ idx' = idx + 1
    /\ pc' = "question"
    /\ UNCHANGED << adapter_i, model_records, successful_adapters,
                    failed_adapters, calls >>
    /\ UNCHANGED send_vars
    /\ UNCHANGED store_vars
    /\ UNCHANGED task_vars
    /\ UNCHANGED server_vars

\* An except clause that leaves the question loop of the model.
record_error_aborting ==
    /\ pc = "raised"
    /\ model_records' = Append(model_records,
                               ErrorRecord(quiz.questions[idx], exc))
    /\ resolved' = Append(resolved, Resolution(TRUE, exc))
    /\ idx' = Len(quiz.questions) + 1
    /\ pc' = "question"
    /\ UNCHANGED << adapter_i, successful_adapters, failed_adapters, calls >>
    /\ UNCHANGED send_vars
    /\ UNCHANGED store_vars
    /\ UNCHANGED task_vars
    /\ UNCHANGED server_vars

\* An outer except clause without "continue": the records the failed
\* model has so far are inserted.
record_error_persisting ==
    /\ pc = "raised"
    /\ resolved' = Append(resolved, Resolution(TRUE, exc))
    /\ IF HasId(quiz.questions[idx])
       THEN /\ model_records' = Append(model_records,
                                       ErrorRecord(quiz.questions[idx], exc))
            /\ idx' = idx + 1
            /\ pc' = "question"
            /\ UNCHANGED << adapter_i, failed_adapters, results >>
       ELSE /\ failed_adapters' =
                  Append(failed_adapters,
                         [id |-> CurrentAdapter, error |-> exc.str])
            /\ results' = insert_results(results, run_id, quiz.id,
                                         CurrentAdapter, model_records)
            /\ adapter_i' = adapter_i + 1
            /\ pc' = "model"
            /\ UNCHANGED << model_records, idx >>
    /\ UNCHANGED << successful_adapters, calls, runs, quizzes, utc_now >>
    /\ UNCHANGED send_vars
    /\ UNCHANGED task_vars
    /\ UNCHANGED server_vars

\* Lines 106-122: "except Exception as e" of the question.  When the
\* handler itself raises (q["id"] of a question without id), the exception
\* reaches "except Exception as e" of the model (lines 128-132): the model
\* is listed as failed and "continue" skips insert_results.  The KeyError
\* of the handler has the handled exception as its __context__, whose str
\* _extract_actual_error returns (lines 28-29).
record_error ==
    /\ pc = "raised"
    /\ resolved' = Append(resolved, Resolution(TRUE, exc))
    /\ IF HasId(quiz.questions[idx])
       THEN /\ model_records' = Append(model_records,
                                       ErrorRecord(quiz.questions[idx], exc))
            /\ idx' = idx + 1
            /\ pc' = "question"
            /\ UNCHANGED << adapter_i, failed_adapters >>
       ELSE /\ failed_adapters' =
                  Append(failed_adapters,
                         [id |-> CurrentAdapter, error |-> exc.str])
            /\ adapter_i' = adapter_i + 1
            /\ pc' = "model"
            /\ UNCHANGED << model_records, idx >>
    /\ UNCHANGED << successful_adapters, calls >>
    /\ UNCHANGED send_vars
    /\ UNCHANGED store_vars
    /\ UNCHANGED task_vars
    /\ UNCHANGED server_vars

\* A loop that goes on to the next model with the rows not yet written.
end_model_unpersisted ==
    /\ pc = "question"
    /\ idx > Len(quiz.questions)
    /\ successful_adapters' = Append(successful_adapters, CurrentAdapter)
    /\ adapter_i' = adapter_i + 1
    /\ pc' = "model"
    /\ UNCHANGED << runs, quizzes, utc_now, idx, model_records, results,
                    failed_adapters, calls, resolved >>
    /\ UNCHANGED send_vars
    /\ UNCHANGED task_vars
    /\ UNCHANGED server_vars

\* Lines 124-133: the question loop is over; the adapter is listed as
\* successful and its records are inserted.  An IntegrityError of the
\* insert leaves run_quiz (and _run_and_report) by the exception.
end_model ==
    /\ pc = "question"
    /\ idx > Len(quiz.questions)
    /\ successful_adapters' = Append(successful_adapters, CurrentAdapter)
    /\ IF IntegrityError(model_records)
       THEN /\ pc' = "crashed"
            /\ UNCHANGED << results, adapter_i >>
       ELSE /\ results' = insert_results(results, run_id, quiz.id,
                                         CurrentAdapter, model_records)
            /\ adapter_i' = adapter_i + 1
            /\ pc' = "model"
    /\ UNCHANGED << runs, quizzes, utc_now, idx, model_records,
                    failed_adapters, calls, resolved >>
    /\ UNCHANGED send_vars
    /\ UNCHANGED task_vars
    /\ UNCHANGED server_vars

\* Lines 135-159: the summary is printed from successful_adapters and
\* failed_adapters, the run is marked completed and run_quiz returns, to
\* _run_and_report or to its other caller.
finish_run ==
    /\ pc = "model"
    /\ adapter_i > Len(adapters)
    /\ runs' = update_run_status(runs, run_id, "completed")
    /\ pc' = IF req.quiz_id = "" THEN "done" ELSE "ran"
    /\ UNCHANGED << results, quizzes, utc_now, calls, resolved >>
    /\ UNCHANGED task_vars
    /\ UNCHANGED loop_vars
    /\ UNCHANGED send_vars
    /\ UNCHANGED server_vars

-----------------------------------------------------------------------------
(* _run_and_report, after run_sync. *)

\* Lines 189-193: with generate_report the run is marked reporting.
report_begin ==
    /\ pc = "ran"
    /\ IF req.generate_report
       THEN /\ runs' = update_run_status(runs, run_id, "reporting")
            /\ pc' = "reporting"
       ELSE /\ runs' = runs
            /\ pc' = "done"
    /\ UNCHANGED << results, quizzes, utc_now, calls, resolved >>
    /\ UNCHANGED task_vars
    /\ UNCHANGED loop_vars
    /\ UNCHANGED send_vars
    /\ UNCHANGED server_vars

\* Lines 194-203: generate_markdown_report returns (completed) or raises
\* (failed, and the exception leaves the task).
report_end ==
    /\ pc = "reporting"
    /\ \E raised \in BOOLEAN :
          runs' = update_run_status(runs, run_id,
                                    IF raised THEN "failed" ELSE "completed")
    /\ pc' = "done"
    /\ UNCHANGED << results, quizzes, utc_now, calls, resolved >>
    /\ UNCHANGED task_vars
    /\ UNCHANGED loop_vars
    /\ UNCHANGED send_vars
    /\ UNCHANGED server_vars

-----------------------------------------------------------------------------
(* The inputs: the quiz in the store, the requests and the providers. *)

NoRuns == [r \in {} |-> 0]

\* Replies of a model.
ValidReply ==
    << LBrace, Member("choice", Lit("A", 1)),
       Member("reason", Lit("Because.", 8)), RBrace >>

WrappedReply ==
    << Word, Space, LBrace, Member("choice", Lit("B", 1)), RBrace, Space,
       Word >>

ProseReply == << Word, Space, Word >>

NumberReply == << Number >>

NullChoiceReply == << LBrace, Member("choice", NoneStr), RBrace >>

\* Error messages of a provider (or of httpx), short and long.
ShortMessage == Lit("overloaded", 10)

LongMessage == Lit("The server had an error while processing your request", 160)

\* The providers answer one question of every run in the same few ways, and
\* never recover within a call.
CoarseEnv ==
    [recover |-> FALSE,
     outcomes |-> { HttpOk(ValidReply), HttpOk(ProseReply),
                    HttpError(500, ShortMessage),
                    TransportError(ShortMessage) }]

\* Every status the adapters classify, every kind of body, with recovery.
FineEnv ==
    [recover |-> TRUE,
     outcomes |->
        { HttpOk(t) : t \in { ValidReply, WrappedReply, ProseReply,
                              NumberReply, NullChoiceReply } }
        \cup { HttpOkNotJson }
        \cup { HttpError(st, m) : st \in { 401, 403, 404, 429, 500 },
                                  m \in { ShortMessage, LongMessage } }
        \cup { TransportError(m) : m \in { ShortMessage, LongMessage } }]

Requests ==
    { RunRequest(<< "gpt" >>, "", g) : g \in BOOLEAN }
    \cup { RunRequest(<< "gemini", "gpt" >>, "", FALSE),
           RunRequest(<< >>, "default", TRUE),
           RunRequest(<< "nokey", "unknown", "gpt" >>, "", FALSE),
           RunRequest(<< "unknown" >>, "", FALSE),
           RunRequest(<< >>, "nogroup", FALSE) }

\* Command lines of the benchmark command.
Commands ==
    { [models |-> << "unknown", "nokey", "gemini" >>, group |-> ""],
      [models |-> << >>, group |-> "keyless"],
      [models |-> << >>, group |-> "nogroup"] }

SingleRequests ==
    { RunRequest(<< id >>, "", g) : id \in ModelIds, g \in BOOLEAN }

\* The adapters only a caller of run_quiz can build: OpenRouterAdapter.
DirectAdapters ==
    { id \in ModelIds : ModelConfigs[id].provider \notin CreatableProviders }

\* The server has started and has no task; no run_quiz is under way.
InitTask ==
    /\ run_ids = << >>
    /\ report_tasks = << >>
    /\ pc = "idle"
    /\ req = NoRequest
    /\ use_mocks = FALSE
    /\ run_id = ""
    /\ adapters = << >>
    /\ quiz = NoQuiz
    /\ adapter_i = 1
    /\ idx = 1
    /\ model_records = << >>
    /\ successful_adapters = << >>
    /\ failed_adapters = << >>
    /\ attempt_number = 1
    /\ last_attempt = EmptyStr
    /\ elapsed = 0
    /\ start_time = 0
    /\ resp = NoResponse
    /\ exc = NoException
    /\ calls = << >>
    /\ resolved = << >>
    /\ http_log = << >>

\* The store holds one quiz, and no run yet.
InitQuiz(definition) ==
    /\ quizzes = upsert_quiz([q \in {} |-> 0], definition)
    /\ runs = NoRuns
    /\ results = << >>
    /\ assets = << >>
    /\ utc_now = 0
    /\ InitTask

InitWith(n) == InitQuiz(QuizDefinition(n))

\* A run of up to two adapters over a quiz of up to MaxQuestions questions.
Init == \E n \in 1..MaxQuestions : InitWith(n)

Next ==
    \/ create_run(Requests)
    \/ benchmark(Commands)
    \/ run_quiz_begin
    \/ begin_model
    \/ send_question
    \/ http_attempt(CoarseEnv)
    \/ record_answer
    \/ record_error
    \/ end_model
    \/ finish_run
    \/ report_begin
    \/ report_end

Spec == Init /\ [][Next]_vars

\* A run of one adapter of any provider over a quiz of one question.
InitSingle == InitWith(1)

NextSingle ==
    \/ create_run(SingleRequests)
    \/ run_quiz_call(DirectAdapters)
    \/ run_quiz_begin
    \/ begin_model
    \/ send_question
    \/ http_attempt(FineEnv)
    \/ record_answer
    \/ record_error
    \/ end_model
    \/ finish_run
    \/ report_begin
    \/ report_end

SpecSingle == InitSingle /\ [][NextSingle]_vars

\* A quiz of one question with k options.
OptionsQuiz(k) ==
    [id |-> "quiz1", title |-> "Quiz",
     questions |-> << [id |-> "Q1", text |-> Lit("Q1", 9),
                       options |-> [i \in 1..k |-> Lit("option", i)]] >>]

\* The provider answers with a valid reply or fails.
PromptEnv ==
    [recover |-> FALSE,
     outcomes |-> { HttpOk(ValidReply), HttpError(500, ShortMessage) }]

PromptRequests == { RunRequest(<< "gpt" >>, "", TRUE) }

\* A run of one adapter over a question with 1 to 26 options.
InitPrompt == \E k \in 1..Len(ascii_uppercase) : InitQuiz(OptionsQuiz(k))

NextPrompt ==
    \/ create_run(PromptRequests)
    \/ run_quiz_begin
    \/ begin_model
    \/ send_question
    \/ http_attempt(PromptEnv)
    \/ record_answer
    \/ record_error
    \/ end_model
    \/ finish_run
    \/ report_begin
    \/ report_end

SpecPrompt == InitPrompt /\ [][NextPrompt]_vars

\* The texts of up to MaxTextLen characters over the characters of the
\* parser's cases, and an object between prose.
MaxTextLen == 3

TextChars ==
    { LBrace, RBrace, Space, Word, Number, Deep, DeepMember,
      Member("choice", Lit("B", 1)) }

Prose == { << >>, << Word >>, << Word, Space >>, << Space, Word, Space >> }

Objects ==
    { << LBrace, Member("choice", Lit("B", 1)), RBrace >>,
      << LBrace, Member("choice", Lit("A", 1)), Space,
         Member("reason", Lit("Why not.", 8)), RBrace >>,
      << LBrace, Member("reason", Lit("Why not.", 8)), RBrace >>,
      << LBrace, Member("choice", Lit("Z", 1)),
         Member("reason", Lit("Why not.", 8)), RBrace >>,
      << LBrace, Member("choice", Lit("A", 1)), DeepMember, RBrace >> }

Texts ==
    UNION { [1..k -> TextChars] : k \in 0..MaxTextLen }
    \cup { pre \o obj \o post : pre \in Prose, obj \in Objects,
                                 post \in Prose }

\* The provider answers with any of the texts.
ParseEnv == [recover |-> FALSE, outcomes |-> { HttpOk(t) : t \in Texts }]

\* A run of one adapter over one question, replied by any text.
NextParse ==
    \/ create_run(PromptRequests)
    \/ run_quiz_begin
    \/ begin_model
    \/ send_question
    \/ http_attempt(ParseEnv)
    \/ record_answer
    \/ record_error
    \/ end_model
    \/ finish_run
    \/ report_begin
    \/ report_end

SpecParse == InitSingle /\ [][NextParse]_vars

\* A caller of adapter.send other than run_quiz (as the adapters' contract
\* test): the adapter is sent a message list of the caller's own.
direct_send(ids, lists) ==
    /\ pc = "idle"
    /\ \E id \in ids, messages \in lists :
          /\ adapters' = << id >>
          /\ calls' = Append(calls, [model |-> id, messages |-> messages,
                                     params |-> [temperature |-> "0.2"]])
    /\ use_mocks' = FALSE
    /\ elapsed' = 0
    /\ start_time' = 0
    /\ attempt_number' = 1
    /\ last_attempt' = EmptyStr
    /\ http_log' = << >>
    /\ exc' = NoException
    /\ resp' = NoResponse
    /\ pc' = "http"
    /\ UNCHANGED << req, run_id, quiz, resolved >>
    /\ UNCHANGED store_vars
    /\ UNCHANGED loop_vars
    /\ UNCHANGED server_vars

\* send returns to that caller, or raises.
direct_return ==
    /\ pc \in { "reply", "raised" }
    /\ run_id = ""
    /\ resolved' = Append(resolved, Resolution(pc = "raised", exc))
    /\ pc' = "done"
    /\ UNCHANGED << req, use_mocks, run_id, adapters, quiz, calls >>
    /\ UNCHANGED store_vars
    /\ UNCHANGED loop_vars
    /\ UNCHANGED send_vars
    /\ UNCHANGED server_vars

\* cleanup_stale_runs, at the start of the server: no task of the server
\* is alive.
cleanup_stale_runs ==
    /\ pc = "idle"
    /\ LET marked == mark_stale_runs_failed(runs, StaleStatuses, "failed")
       IN  /\ runs' = marked.runs
           /\ run_ids' \in ListsOf(marked.run_ids)
    /\ UNCHANGED << results, quizzes, utc_now, assets, report_tasks, pc, calls,
                    resolved >>
    /\ UNCHANGED task_vars
    /\ UNCHANGED loop_vars
    /\ UNCHANGED send_vars

\* DELETE /api/quizzes/{quiz_id}: 404 when the store has no such quiz;
\* else the rows are deleted and the quiz file is removed.  A run_quiz that
\* has not yet read the file finds none.
remove_quiz(ids) ==
    /\ \E quiz_id \in ids :
          /\ quiz_id \in DOMAIN quizzes
          /\ LET deleted == delete_quiz([runs |-> runs, results |-> results,
                                         assets |-> assets,
                                         quizzes |-> quizzes], quiz_id)
             IN  /\ runs' = deleted.runs
                 /\ results' = deleted.results
                 /\ assets' = deleted.assets
                 /\ quizzes' = deleted.quizzes
                 /\ run_ids' \in ListsOf(deleted.run_ids)
          /\ quiz' = IF pc \in { "idle", "queued" } /\ quiz.id = quiz_id
                     THEN NoQuiz ELSE quiz
    /\ UNCHANGED << utc_now, report_tasks, pc, calls, resolved, req,
                    use_mocks, run_id, adapters >>
    /\ UNCHANGED loop_vars
    /\ UNCHANGED send_vars

\* The stores the server may find: up to two runs of two quizzes in any
\* status, each with or without rows of results and assets.
StoreRunIds == { "r1", "r2" }

StoreQuizIds == { "quiz1", "quiz2" }

Statuses == { "queued", "running", "reporting", "completed", "failed" }

StoredQuiz(q) == [QuizDefinition(1) EXCEPT !.id = q]

StoredRun(q, st) ==
    [quiz_id |-> q, created_at |-> 0, status |-> st, models |-> << "gpt" >>,
     settings |-> NoSettings]

StoredResult(r, q) ==
    ResultRow(r, q, "gpt",
              QAResult("Q1", Lit("A", 1), Lit("Because.", 8), EmptyStr, FALSE,
                       5, NoneInt, NoneInt))

StoredAsset(r) ==
    [run_id |-> r, asset_type |-> "report", path |-> r, created_at |-> 0]

StoredRuns ==
    UNION { [ids -> { StoredRun(q, st) : q \in StoreQuizIds, st \in Statuses }] :
            ids \in SUBSET StoreRunIds }

InitStore ==
    /\ \E table \in StoredRuns, qs \in SUBSET StoreQuizIds :
          /\ \A r \in DOMAIN table : table[r].quiz_id \in qs
          /\ runs = table
          /\ quizzes = [q \in qs |->
                           [title |-> "Quiz", quiz_yaml |-> StoredQuiz(q)]]
          /\ \E with \in SUBSET DOMAIN table :
                /\ \E l \in ListsOf(with) :
                      results = [i \in DOMAIN l |->
                                    StoredResult(l[i], table[l[i]].quiz_id)]
                /\ \E l \in ListsOf(with) :
                      assets = [i \in DOMAIN l |-> StoredAsset(l[i])]
    /\ utc_now = 0
    /\ InitTask

NextStore ==
    \/ cleanup_stale_runs
    \/ remove_quiz(StoreQuizIds)

SpecStore == InitStore /\ [][NextStore]_vars

\* A run of one adapter over the quiz, which may be deleted at any time.
NextDelete ==
    \/ create_run(PromptRequests)
    \/ remove_quiz({ "quiz1" })
    \/ run_quiz_begin
    \/ begin_model
    \/ send_question
    \/ http_attempt(PromptEnv)
    \/ record_answer
    \/ record_error
    \/ end_model
    \/ finish_run
    \/ report_begin
    \/ report_end

SpecDelete == Init /\ [][NextDelete]_vars

\* POST /api/runs/{run_id}/report, for up to MaxReruns requests: 404
\* without the run, 400 while its status is queued, running or reporting
\* and 400 without results; else the run's assets are deleted and
\* _report_only is added as a background task.
MaxReruns == 2

rerun_report(ids) ==
    /\ Len(report_tasks) < MaxReruns
    /\ \E id \in ids :
          /\ id \in DOMAIN runs
          /\ runs[id].status \notin { "queued", "running", "reporting" }
          /\ fetch_results(results, id) # << >>
          /\ assets' = delete_assets_for_run(assets, id)
          /\ report_tasks' = Append(report_tasks,
                                    [run_id |-> id, pc |-> "added"])
    /\ UNCHANGED << run_ids, pc, calls, resolved >>
    /\ UNCHANGED store_vars
    /\ UNCHANGED task_vars
    /\ UNCHANGED loop_vars
    /\ UNCHANGED send_vars

\* _report_only, lines 207-210: the task starts and sets the status.
report_only_begin ==
    /\ \E t \in DOMAIN report_tasks :
          /\ report_tasks[t].pc = "added"
          /\ runs' = update_run_status(runs, report_tasks[t].run_id,
                                       "reporting")
          /\ report_tasks' = [report_tasks EXCEPT ![t].pc = "reporting"]
    /\ UNCHANGED << results, quizzes, utc_now, assets, run_ids, pc, calls,
                    resolved >>
    /\ UNCHANGED task_vars
    /\ UNCHANGED loop_vars
    /\ UNCHANGED send_vars

\* _report_only, lines 211-220: generate_markdown_report returns
\* (completed) or raises (failed).
report_only_end ==
    /\ \E t \in DOMAIN report_tasks, raised \in BOOLEAN :
          /\ report_tasks[t].pc = "reporting"
          /\ runs' = update_run_status(runs, report_tasks[t].run_id,
                                       IF raised THEN "failed"
                                       ELSE "completed")
          /\ report_tasks' = [report_tasks EXCEPT ![t].pc = "done"]
    /\ UNCHANGED << results, quizzes, utc_now, assets, run_ids, pc, calls,
                    resolved >>
    /\ UNCHANGED task_vars
    /\ UNCHANGED loop_vars
    /\ UNCHANGED send_vars

\* A run of one adapter over one question, and requests for its report.
NextReport ==
    \/ create_run(PromptRequests)
    \/ run_quiz_begin
    \/ begin_model
    \/ send_question
    \/ http_attempt(PromptEnv)
    \/ record_answer
    \/ record_error
    \/ end_model
    \/ finish_run
    \/ report_begin
    \/ report_end
    \/ rerun_report({ "run1" })
    \/ report_only_begin
    \/ report_only_end

SpecReport == InitSingle /\ [][NextReport]_vars

\* Runs of one and two adapters over a quiz that is well-formed or not.
ListRequests ==
    { RunRequest(<< "gemini", "gpt" >>, "", FALSE),
      RunRequest(<< "gpt" >>, "", TRUE) }

InitLists ==
    \E n \in 1..MaxQuestions :
        InitQuiz(QuizDefinition(n)) \/ InitQuiz(MalformedQuiz(n))

NextLists ==
    \/ create_run(ListRequests)
    \/ run_quiz_begin
    \/ begin_model
    \/ send_question
    \/ http_attempt(PromptEnv)
    \/ record_answer
    \/ record_error
    \/ end_model
    \/ finish_run
    \/ report_begin
    \/ report_end

SpecLists == InitLists /\ [][NextLists]_vars

\* The provider answers with a valid reply, with a null choice, or fails.
LiveEnv ==
    [recover |-> FALSE,
     outcomes |-> { HttpOk(ValidReply), HttpOk(NullChoiceReply),
                    HttpError(500, ShortMessage) }]

\* The background task of a run, from create_run to its end.
NextLive ==
    \/ create_run(ListRequests)
    \/ run_quiz_begin
    \/ begin_model
    \/ send_question
    \/ http_attempt(LiveEnv)
    \/ record_answer
    \/ record_error
    \/ end_model
    \/ finish_run
    \/ report_begin
    \/ report_end

\* The task is run to its end by the server's thread pool and every request
\* of a send is answered: a step that can be taken is taken.  A task that
\* an exception has left takes no step.
SpecLive == Init /\ [][NextLive]_vars /\ WF_vars(NextLive)

\* Message lists of up to MaxMessages messages of the roles user, system
\* and assistant.
MaxMessages == 3

Messages ==
    { [role |-> "user", content |-> Lit("u1", 2)],
      [role |-> "user", content |-> Lit("u2", 2)],
      [role |-> "system", content |-> Lit("s1", 2)],
      [role |-> "system", content |-> Lit("s2", 2)],
      [role |-> "assistant", content |-> Lit("a1", 2)] }

MessageLists == UNION { [1..k -> Messages] : k \in 0..MaxMessages }

\* The Google adapter is sent any of the message lists.
NextGoogle ==
    \/ direct_send({ "gemini" }, MessageLists)
    \/ http_attempt(PromptEnv)
    \/ direct_return

SpecGoogle == InitSingle /\ [][NextGoogle]_vars

-----------------------------------------------------------------------------
(* Properties of the run. *)

\* The numbers of questions and of adapters of the run.
N == Len(quiz.questions)
M == Len(adapters)

\* run_quiz has returned to its caller.
Completed == pc \in { "ran", "reporting", "done" }

\* The rows of the run, and those of one of its models, in id order.
RunRows == fetch_results(results, run_id)
RowsOf(m) == SelectSeq(RunRows, LAMBDA row : row.model_id = m)

\* The row run_quiz produced for an ended call: the persisted one once the
\* model's rows are inserted, before that the one held in model_records.
Produced(e) ==
    IF RowsOf(e.model) # << >> THEN RowsOf(e.model)[e.q_num]
    ELSE ResultRow(run_id, quiz.id, e.model, model_records[e.q_num])

\* The row that the way the call ended determines, by itself.
Expected(e) ==
    LET q == quiz.questions[e.q_num]
    IN  ResultRow(run_id, quiz.id, e.model,
                  IF e.raised THEN ErrorRecord(q, e.exc)
                  ELSE AnswerRecord(q, parse_choice_json(e.resp.text), e.resp,
                                    e.latency_ms))

\* The call failed on every attempt.
Exhausted(e) ==
    e.raised /\ e.exc.type = "RetryError" /\ e.attempts = StopAfterAttempt

\* The call returned a reply that parse_choice_json gives no result for.
Unparseable(e) == ~e.raised /\ parse_choice_json(e.resp.text).kind = "none"

\* The call returned a reply that holds a choice.
Answered(e) == ~e.raised /\ ~Falsy(parse_choice_json(e.resp.text))

\* C1: after run_quiz completes for a quiz of N questions and M adapters,
\* the rows persisted for the run are exactly N*M, exactly one per pair of
\* a model and a question, whatever mix of answers, unparseable replies and
\* send errors occurred.
C1_ResultCoverage ==
    Completed =>
        /\ Len(RunRows) = N * M
        /\ \A a \in 1..M, q \in 1..N :
              Cardinality({ i \in 1..Len(RunRows) :
                              /\ RunRows[i].model_id = adapters[a]
                              /\ RunRows[i].question_id = quiz.questions[q].id })
                 = 1

\* A completed run of two adapters over two questions that saw an answer,
\* an unparseable reply and a failed send.
C1_Witness ==
    /\ Completed
    /\ N = 2
    /\ M = 2
    /\ \E i, j, k \in 1..Len(resolved) :
          /\ Answered(resolved[i])
          /\ Unparseable(resolved[j])
          /\ Exhausted(resolved[k])

\* C2: when the send of question k of model m fails on every attempt,
\* question k gets a row with refused = true; every row is the one its own
\* call determines, whatever happened to the other calls; a call starts
\* its attempts afresh; and the completed run holds the rows of all the
\* other questions of m and of every question of every other model.
C2_FailureIsolation ==
    /\ \A j \in 1..Len(resolved) :
          /\ Produced(resolved[j]) = Expected(resolved[j])
          /\ Exhausted(resolved[j]) => Produced(resolved[j]).refused = 1
    /\ pc = "http" => Len(http_log) = attempt_number - 1
    /\ Completed =>
          \A a \in 1..M, q \in 1..N :
              \E j \in 1..Len(resolved) :
                  /\ resolved[j].model = adapters[a]
                  /\ resolved[j].q_num = q
                  /\ Len(RowsOf(adapters[a])) >= q

\* A completed run in which the first question of the first model failed
\* on every attempt and a later question of it and one of the other model
\* were answered.
C2_Witness ==
    /\ Completed
    /\ N = 2
    /\ M = 2
    /\ Exhausted(resolved[1])
    /\ Answered(resolved[2])
    /\ Answered(resolved[3])

\* send raised: the retries were exhausted, or the body of the 2xx
\* response could not be read.
SendRaised(e) == e.raised /\ e.exc.type \in { "RetryError", "JSONDecodeError" }

\* The root cause of a raised send: the message of the last failed attempt.
RootCause(e) ==
    IF e.exc.type = "RetryError" THEN e.last_attempt ELSE e.exc.str

WentOn(j) ==
    resolved[j].q_num < N =>
        \/ Len(calls) > j
        \/ pc = "question" /\ idx = resolved[j].q_num + 1

\* C4: when send returns a reply that parse_choice_json gives no result
\* for, the question's row has choice "", refused = true and the empty
\* reason, and the loop goes on to the next question.
C4_UnparseableRecord ==
    \A j \in 1..Len(resolved) :
        Unparseable(resolved[j]) =>
            LET row == Produced(resolved[j])
            IN  /\ row.choice = EmptyStr
                /\ row.refused = 1
                /\ row.reason = EmptyStr
                /\ WentOn(j)

\* C4 as stated: the reason of that row is "unparseable".
C4_ReasonUnparseable ==
    \A j \in 1..Len(resolved) :
        Unparseable(resolved[j]) =>
            LET row == Produced(resolved[j])
            IN  /\ row.choice = EmptyStr
                /\ row.refused = 1
                /\ row.reason = Lit("unparseable", 11)
                /\ WentOn(j)

\* An unparseable reply to the first question of two, and the second sent.
C4_Witness ==
    /\ N = 2
    /\ Len(resolved) >= 1
    /\ Unparseable(resolved[1])
    /\ Len(calls) >= 2

\* C5: the rows of a model are inserted only after its question loop has
\* finished, and in every state each model of the run has none or all N of
\* its rows in the store.
C5_WholeModelPersisted ==
    \A a \in 1..M :
        /\ Len(RowsOf(adapters[a])) \in { 0, N }
        /\ Len(RowsOf(adapters[a])) = IF a < adapter_i THEN N ELSE 0

\* The first model's two rows are in the store while the second model has
\* one record of two and no row.
C5_Witness ==
    /\ N = 2
    /\ M = 2
    /\ adapter_i = 2
    /\ Len(model_records) = 1
    /\ pc = "http"
    /\ Len(RowsOf(adapters[1])) = 2
    /\ Len(RowsOf(adapters[2])) = 0

\* The attempt did not get through: a transport error or a non-2xx status.
NotThrough(o) == ~Is2xx(o)

\* C6: a send makes at most 3 HTTP attempts: every attempt but the last
\* met a transport error or a non-2xx response, so the first 2xx response
\* is the last attempt; a send that raised RetryError made exactly 3.
C6_AtMostThreeAttempts ==
    /\ Len(http_log) <= StopAfterAttempt
    /\ \A i \in 1..Len(http_log) - 1 : NotThrough(http_log[i].outcome)
    /\ pc = "raised" /\ exc.type = "RetryError" =>
          Len(http_log) = StopAfterAttempt

\* The attempt failed inside tenacity's "with attempt" block.
FailedInAttempt(o) == NotThrough(o) \/ (CurrentClass = "google" /\ ~o.body_ok)

\* The message of the exception the attempt raised.
FailureOf(o) ==
    IF Is2xx(o) THEN JSONDecodeErrorStr
    ELSE AttemptException(CurrentClass, CurrentModel, o)

\* C7: when all 3 attempts of a send fail, send raises one RetryError that
\* holds the failure of the last attempt (its classified message or its
\* transport error, with the text httpx gave), and _extract_actual_error
\* gives that message back, not the text of the RetryError.
C7_RootCausePreserved ==
    (/\ pc = "raised"
     /\ Len(http_log) = StopAfterAttempt
     /\ FailedInAttempt(http_log[StopAfterAttempt].outcome)) =>
        LET o == http_log[StopAfterAttempt].outcome
        IN  /\ exc.type = "RetryError"
            /\ exc.has_last_attempt
            /\ exc.last_attempt = FailureOf(o)
            /\ _extract_actual_error(exc) = FailureOf(o)
            /\ _extract_actual_error(exc) # exc.str
            /\ o.kind = "transport" =>
                  Contains(_extract_actual_error(exc), o.error_message)

\* Three attempts failed, the last one with a 401, and send has raised.
C7_Witness ==
    /\ pc = "raised"
    /\ exc.type = "RetryError"
    /\ Len(http_log) = StopAfterAttempt
    /\ http_log[StopAfterAttempt].outcome.status = 401
    /\ http_log[1].outcome.kind = "transport"

\* C8: the calls of the run go adapter by adapter and, within an adapter,
\* question by question in the quiz's order, each prompt rendered as
\* question i of N; a question is sent only when the call before it has
\* ended; the model's records and rows are in the same order.
C8_QuestionOrder ==
    /\ Len(resolved) <= Len(calls)
    /\ Len(calls) <= Len(resolved) + 1
    /\ pc \in { "http", "reply", "raised" } <=> Len(calls) = Len(resolved) + 1
    /\ \A j \in 1..Len(calls) :
          LET a == ((j - 1) \div N) + 1
              i == ((j - 1) % N) + 1
              prompt == calls[j].messages[1].content
          IN  /\ calls[j].model = adapters[a]
              /\ prompt.q_num = i
              /\ prompt.q_total = N
              /\ prompt.question_text = quiz.questions[i].text
    /\ \A j \in 1..Len(resolved) :
          /\ resolved[j].model = calls[j].model
          /\ resolved[j].q_num = calls[j].messages[1].content.q_num
    /\ \A i \in 1..Len(model_records) :
          model_records[i].question_id = quiz.questions[i].id
    /\ \A a \in 1..M :
          \A i \in 1..Len(RowsOf(adapters[a])) :
              RowsOf(adapters[a])[i].question_id = quiz.questions[i].id

\* Two adapters have been sent both questions, and all four calls ended.
C8_Witness ==
    /\ N = 2
    /\ M = 2
    /\ Len(calls) = 4
    /\ Len(resolved) = 4
    /\ Completed

\* The status of the run's row; "none" before the row is inserted.
Status == IF run_id \in DOMAIN runs THEN runs[run_id].status ELSE "none"

\* C9: the status of the run moves only along queued -> running ->
\* (reporting ->) completed | failed: completed and failed are final.
C9_StatusOrder ==
    [][Status' # Status =>
          << Status, Status' >> \in
              { << "none", "queued" >>, << "queued", "running" >>,
                << "running", "reporting" >>, << "running", "completed" >>,
                << "running", "failed" >>, << "reporting", "completed" >>,
                << "reporting", "failed" >> }]_vars

\* C10: at the end-of-run summary every model listed as succeeded has at
\* least one row with refused = false.
C10_SucceededAnswered ==
    Completed =>
        \A i \in 1..Len(successful_adapters) :
            \E k \in 1..Len(RowsOf(successful_adapters[i])) :
                RowsOf(successful_adapters[i])[k].refused = 0

-----------------------------------------------------------------------------
(* Two runs of one quiz over the same adapters in two orders. *)

\* The permutations of a list of distinct elements.
Perms(s) ==
    { p \in [1..Len(s) -> { s[i] : i \in 1..Len(s) }] :
        \A i \in 1..Len(s) : \E k \in 1..Len(s) : p[k] = s[i] }

\* How the first run's call of a question to a model ended.
FirstRun(m, q) ==
    CHOOSE e \in { resolved[j] : j \in 1..(N * M) } : e.model = m /\ e.q_num = q

\* The provider answers a question as it answered it in the first run.
Replayed(o, e) ==
    IF e.raised THEN ~Is2xx(o) ELSE o = HttpOk(e.resp.text)

PermuteOutcomes ==
    { HttpOk(ValidReply), HttpOk(ProseReply), HttpError(500, ShortMessage) }

\* Providers whose replies depend on the model and the question and not
\* on the order of the calls.
PermuteEnv ==
    [recover |-> FALSE,
     outcomes |-> IF run_id = "run2"
                  THEN { o \in PermuteOutcomes :
                           Replayed(o, FirstRun(CurrentAdapter, idx)) }
                  ELSE PermuteOutcomes]

PermuteRequests ==
    { RunRequest(<< "gpt", "gemini" >>, "", FALSE),
      RunRequest(<< "gemini", "claude" >>, "", TRUE) }

\* A caller awaits run_quiz once more, for a new run id, with the same
\* quiz file and the same adapters in some order.
run_quiz_permuted ==
    /\ pc = "done"
    /\ run_id = "run1"
    /\ \E p \in Perms(adapters) : adapters' = p
    /\ run_id' = "run2"
    /\ req' = NoRequest
    /\ pc' = "queued"
    /\ UNCHANGED << use_mocks, quiz, calls, resolved >>
    /\ UNCHANGED store_vars
    /\ UNCHANGED loop_vars
    /\ UNCHANGED send_vars
    /\ UNCHANGED server_vars

NextPermute ==
    \/ create_run(PermuteRequests)
    \/ run_quiz_permuted
    \/ run_quiz_begin
    \/ begin_model
    \/ send_question
    \/ http_attempt(PermuteEnv)
    \/ record_answer
    \/ record_error
    \/ end_model
    \/ finish_run
    \/ report_begin
    \/ report_end

SpecPermute == Init /\ [][NextPermute]_vars

\* What a row says: its model, question, choice, reason and refused.
Content(row) ==
    << row.model_id, row.question_id, row.choice, row.reason, row.refused >>

ContentOf(id) ==
    { Content(fetch_results(results, id)[i]) :
        i \in 1..Len(fetch_results(results, id)) }

\* The models of the rows of a run, in storage order.
ModelOrder(id) ==
    [i \in 1..Len(fetch_results(results, id)) |->
        fetch_results(results, id)[i].model_id]

-----------------------------------------------------------------------------
(* Requests and their parameters. *)

\* The body posted for the j-th call of the run, and the generation
\* parameters it carries: the top-level keys of the body, or Google's
\* generationConfig.
SentPayload(j) ==
    Payload(AdapterClass(calls[j].model, use_mocks),
            ModelConfigs[calls[j].model].model, calls[j].messages,
            calls[j].params)

SentParams(j) ==
    IF AdapterClass(calls[j].model, use_mocks) = "google"
    THEN SentPayload(j).generationConfig
    ELSE SentPayload(j)

\* C12: the request of every call through a provider adapter carries every
\* parameter the engine passed (the adapter's default_params) with the
\* engine's value, also where the adapter has a built-in value for the key.
C12_ParamsMerged ==
    \A j \in 1..Len(calls) :
        AdapterClass(calls[j].model, use_mocks) # "mock" =>
            \A k \in DOMAIN calls[j].params :
                /\ k \in DOMAIN SentParams(j)
                /\ SentParams(j)[k] = calls[j].params[k]

-----------------------------------------------------------------------------
(* The adapters of a run and the identifiers of its request. *)

\* The model ids the request or command line of the run asks for.
Requested ==
    IF req.models # << >> THEN req.models
    ELSE IF req.group \in DOMAIN model_groups THEN model_groups[req.group]
    ELSE << >>

\* C13: in a run without mocks no adapter, no row of the run's model list
\* and no call belongs to a configured model whose API key is not in the
\* environment: such a model is left out when the adapter list is built.
C13_KeylessExcluded ==
    ~use_mocks =>
        /\ \A i \in 1..Len(adapters) : adapters[i] \in ApiKeys
        /\ \A j \in 1..Len(calls) : calls[j].model \in ApiKeys
        /\ run_id \in DOMAIN runs =>
              \A i \in 1..Len(runs[run_id].models) :
                  runs[run_id].models[i] \in ApiKeys

\* The request asked for a model without API key, and the run has sent a
\* question to the model that is left.
C13_Witness ==
    /\ ~use_mocks
    /\ \E i \in 1..Len(Requested) :
          Requested[i] \in ModelIds /\ Requested[i] \notin ApiKeys
    /\ Len(adapters) = 1
    /\ Len(calls) >= 1

\* C14: a run is started only when every model id of its request is a
\* configured model and its group, when it gives one, a configured group.
C14_UnknownIdRejected ==
    pc # "idle" =>
        /\ \A i \in 1..Len(req.models) : req.models[i] \in ModelIds
        /\ (req.models = << >> /\ req.group # "") =>
              req.group \in DOMAIN model_groups

-----------------------------------------------------------------------------
(* The prompt and the parser. *)

\* C15: the prompt of a question with k options lists option i under the
\* i-th letter of the alphabet, and its choice instruction names the first
\* k letters, each once, and no other.
C15_LettersByPosition ==
    \A j \in 1..Len(calls) :
        LET prompt == calls[j].messages[1].content
            options == quiz.questions[prompt.q_num].options
            k == Len(options)
        IN  /\ Len(prompt.options_text) = k
            /\ \A i \in 1..k :
                  /\ prompt.options_text[i].letter = ascii_uppercase[i]
                  /\ prompt.options_text[i].option_text = options[i]
            /\ prompt.valid_choices = SubSeq(ascii_uppercase, 1, k)

\* A prompt has been sent for a question with as many options as there are
\* letters.
C15_Witness ==
    /\ Len(calls) = 1
    /\ Len(quiz.questions[1].options) = Len(ascii_uppercase)
    /\ Len(calls[1].messages[1].content.valid_choices) = Len(ascii_uppercase)

\* An object between prose without braces: the object and its place.
IsWrapped(text, i, j) ==
    /\ 1 <= i /\ i < j /\ j <= Len(text)
    /\ text[i] = LBrace
    /\ text[j] = RBrace
    /\ \A m \in (i + 1)..(j - 1) : text[m].t \in { "member", " " }
    /\ \A m \in (1..(i - 1)) \cup ((j + 1)..Len(text)) :
          text[m] \in { Word, Space }
    /\ \E m \in (1..(i - 1)) \cup ((j + 1)..Len(text)) : text[m] = Word

\* The members between two places of a text.
MembersOf(text, i, j) ==
    SelectSeq(SubSeq(text, i + 1, j - 1), LAMBDA tk : tk.t = "member")

\* C16: the whole trimmed text is parsed first, and its value returned when
\* it is JSON; otherwise the text from the first "{" to the last "}".  The
\* record of a reply that is an object between prose holds the object's
\* choice and reason.
C16_WholeThenSnippet ==
    \A j \in 1..Len(resolved) :
        LET text == resolved[j].resp.text
            whole == JsonLoads(Strip(text))
            data == parse_choice_json(text)
        IN  ~resolved[j].raised =>
              /\ whole.kind # "error" => data = whole
              /\ \A a, b \in 1..Len(text) :
                    IsWrapped(text, a, b) =>
                       /\ whole.kind = "error"
                       /\ data.kind = "dict"
                       /\ data.d = DictOf(MembersOf(text, a, b))
                       /\ "choice" \in DOMAIN data.d =>
                              model_records[j].choice = data.d["choice"]
                       /\ "reason" \in DOMAIN data.d =>
                              model_records[j].reason = data.d["reason"]

\* The reply was an object with choice and reason between two pieces of
\* prose, and its record is written.
C16_Witness ==
    /\ Len(resolved) = 1
    /\ ~resolved[1].raised
    /\ \E a, b \in 1..Len(resolved[1].resp.text) :
          /\ IsWrapped(resolved[1].resp.text, a, b)
          /\ a > 1
          /\ b < Len(resolved[1].resp.text)
          /\ DOMAIN DictOf(MembersOf(resolved[1].resp.text, a, b))
                = { "choice", "reason" }
    /\ Len(model_records) = 1
    /\ model_records[1].choice = Lit("A", 1)

\* C17: parse_choice_json raises for no text; for a text without a "{" and
\* a later "}", or whose snippet is not JSON, it returns None when the
\* whole text is not JSON, and the record of the reply is a refused one.
C17_NeverRaises ==
    pc = "reply" =>
        LET text == resp.text
            data == parse_choice_json(text)
            start == Find(text, LBrace)
            end == RFind(text, RBrace)
        IN  /\ data.kind # "raise"
            /\ ( /\ JsonLoads(Strip(text)).kind = "error"
                 /\ \/ start = 0
                    \/ end = 0
                    \/ JsonLoads(SubSeq(text, start, end)).kind = "error" )
               => data.kind = "none"

-----------------------------------------------------------------------------
(* The mock adapter. *)

\* C18: in a run with mock adapters no HTTP request is made; every send
\* returns at once, with the same text {"choice":"C","reason":"Mock
\* response."}, and the record and the row of every question hold choice
\* "C" and are not refused.
C18_MockAnswersC ==
    use_mocks =>
        /\ http_log = << >>
        /\ pc # "http"
        /\ \A j \in 1..Len(resolved) :
              LET e == resolved[j]
                  data == parse_choice_json(e.resp.text)
              IN  /\ ~e.raised
                  /\ e.attempts = 0
                  /\ e.resp.text = resolved[1].resp.text
                  /\ data.kind = "dict"
                  /\ data.d = [choice |-> Lit("C", 1),
                               reason |-> Lit("Mock response.", 14)]
                  /\ Produced(e).choice = Lit("C", 1)
                  /\ Produced(e).refused = 0
        /\ Completed =>
              \A a \in 1..M :
                  /\ Len(RowsOf(adapters[a])) = N
                  /\ \A i \in 1..N :
                        /\ RowsOf(adapters[a])[i].choice = Lit("C", 1)
                        /\ RowsOf(adapters[a])[i].refused = 0

\* A run of two mock adapters over two questions is completed.
C18_Witness ==
    /\ use_mocks
    /\ Completed
    /\ N = 2
    /\ M = 2
    /\ Len(resolved) = 4
    /\ Len(RunRows) = 4

-----------------------------------------------------------------------------
(* The row of the run. *)

\* The row of a run without its status.
Written(row) == [row EXCEPT !.status = ""]

\* C19: once the row of the run is written, a step changes nothing of it
\* but its status: quiz_id, models, settings and created_at stay as
\* create_run wrote them.
C19_OnlyStatusChanges ==
    [][(run_id \in DOMAIN runs) =>
          (Written(runs'[run_id]) = Written(runs[run_id]))]_vars

-----------------------------------------------------------------------------
(* One call at a time. *)

\* The place of a model in the adapter list of the run.
PlaceOf(m) == CHOOSE a \in 1..M : adapters[a] = m

\* The calls of a model, by their places in the sequence of all calls.
CallsOf(m) == { j \in 1..Len(calls) : calls[j].model = m }

\* C20: at most one adapter.send is outstanding, and it is the last one
\* issued; when a model is sent a question, every model before it in the
\* list has had all its questions sent and ended, and its rows written.
C20_OneSendAtATime ==
    /\ Len(calls) - Len(resolved) \in { 0, 1 }
    /\ \A j \in 1..Len(calls) :
          \A b \in 1..(PlaceOf(calls[j].model) - 1) :
              /\ Cardinality(CallsOf(adapters[b])) = N
              /\ \A i \in CallsOf(adapters[b]) : i < j /\ i <= Len(resolved)
              /\ Len(RowsOf(adapters[b])) = N
    /\ \A j \in 1..Len(calls) :
          \A i \in 1..(j - 1) : i <= Len(resolved)

\* The second model's first question is out, after the two questions of the
\* first model have ended and its rows are written.
C20_Witness ==
    /\ M = 2
    /\ N = 2
    /\ Len(calls) = 3
    /\ Len(resolved) = 2
    /\ pc = "http"
    /\ Len(RowsOf(adapters[1])) = 2

-----------------------------------------------------------------------------
(* The contents of a request to Google. *)

\* The user and system messages of a list, and the places where an element
\* of the contents starts: the first message and every user message.
Convertible(messages) ==
    SelectSeq(messages, LAMBDA msg : msg.role \in { "user", "system" })

Starts(ms) == { i \in 1..Len(ms) : i = 1 \/ ms[i].role = "user" }

StartOf(ms, b) ==
    CHOOSE i \in Starts(ms) : Cardinality({ k \in Starts(ms) : k <= i }) = b

EndOf(ms, b) ==
    IF b = Cardinality(Starts(ms)) THEN Len(ms) ELSE StartOf(ms, b + 1) - 1

-----------------------------------------------------------------------------
(* The latency of a response. *)

\* The time the attempts of a send took, and the time tenacity slept
\* between n attempts, in ms.
RECURSIVE AttemptsCost(_)
AttemptsCost(log) ==
    IF log = << >> THEN 0
    ELSE log[Len(log)].outcome.ms + AttemptsCost(SubSeq(log, 1, Len(log) - 1))

RECURSIVE BackoffCost(_, _)
BackoffCost(provider, n) ==
    IF n <= 1 THEN 0
    ELSE 1000 * wait_exponential(provider, n - 1) + BackoffCost(provider, n - 1)

\* C22: the latency_ms of the response a provider adapter returns is the
\* time from the start of send to the response: the time of all attempts,
\* the failed ones too, and of the waits between them.
C22_LatencyWholeSend ==
    (pc = "reply" /\ CurrentClass # "mock") =>
        resp.latency_ms = AttemptsCost(http_log)
                             + BackoffCost(CurrentClass, Len(http_log))

-----------------------------------------------------------------------------
(* The clean-up at the start of the server. *)

\* The elements of a list.
Range(l) == { l[i] : i \in DOMAIN l }

\* C23: a step of the clean-up sets every queued, running or reporting run
\* to failed and changes nothing else of it, returns the ids of those runs,
\* each once, and no other, and leaves the completed and failed runs as
\* they are.
C23_StaleRunsFailed ==
    [][cleanup_stale_runs =>
          ( /\ DOMAIN runs' = DOMAIN runs
            /\ Len(run_ids') = Cardinality(Range(run_ids'))
            /\ \A r \in DOMAIN runs :
                  IF runs[r].status \in { "queued", "running", "reporting" }
                  THEN /\ runs'[r] = [runs[r] EXCEPT !.status = "failed"]
                       /\ r \in Range(run_ids')
                  ELSE /\ runs'[r] = runs[r]
                       /\ r \notin Range(run_ids')
            /\ Range(run_ids') \subseteq DOMAIN runs )]_vars

\* The clean-up has failed one run and returned its id, and the store holds
\* a completed run as well.
C23_Witness ==
    /\ Len(run_ids) = 1
    /\ run_ids[1] \in DOMAIN runs
    /\ runs[run_ids[1]].status = "failed"
    /\ \E r \in DOMAIN runs : runs[r].status = "completed"

-----------------------------------------------------------------------------
(* The deletion of a quiz. *)

\* The step deletes quiz q: its row is gone after it.
Deletes(q) == q \in DOMAIN quizzes /\ q \notin DOMAIN quizzes'

\* The rows of a table of rows with run_id that belong to the runs ids.
Kept(table, ids) == SelectSeq(table, LAMBDA row : row.run_id \notin ids)

\* C30: a step that deletes quiz q removes the row of q, the rows of the
\* runs of q and the results and assets of those runs, returns the ids of
\* those runs, each once, and leaves every other row of the four tables as
\* it is, in its order.
C30_DeleteQuizFrame ==
    [][\A q \in StoreQuizIds :
          (remove_quiz({ q }) /\ Deletes(q)) =>
             LET ids == { r \in DOMAIN runs : runs[r].quiz_id = q }
             IN  /\ Range(run_ids') = ids
                 /\ Len(run_ids') = Cardinality(ids)
                 /\ DOMAIN quizzes' = DOMAIN quizzes \ { q }
                 /\ \A o \in DOMAIN quizzes' : quizzes'[o] = quizzes[o]
                 /\ DOMAIN runs' = DOMAIN runs \ ids
                 /\ \A r \in DOMAIN runs' : runs'[r] = runs[r]
                 /\ results' = Kept(results, ids)
                 /\ assets' = Kept(assets, ids)]_vars

\* A quiz with a run, a result and an asset has been deleted, and the run,
\* result and asset of another quiz are in the store.
C30_Witness ==
    /\ Len(run_ids) = 1
    /\ run_ids[1] \notin DOMAIN runs
    /\ Cardinality(DOMAIN quizzes) = 1
    /\ Cardinality(DOMAIN runs) = 1
    /\ Len(results) = 1
    /\ Len(assets) = 1
    /\ \A r \in DOMAIN runs :
          /\ runs[r].quiz_id \in DOMAIN quizzes
          /\ results[1].run_id = r
          /\ assets[1].run_id = r

-----------------------------------------------------------------------------
(* The rows of results and their runs. *)

\* C29: every row of the table results belongs to a run of the table runs.
C29_ResultsHaveRuns ==
    \A i \in DOMAIN results : results[i].run_id \in DOMAIN runs

-----------------------------------------------------------------------------
(* The report tasks of a run. *)

\* The tasks that are generating the report of a run: _report_only tasks,
\* and the _run_and_report task of the run itself.
Reporting(id) ==
    Cardinality({ t \in DOMAIN report_tasks :
                     /\ report_tasks[t].run_id = id
                     /\ report_tasks[t].pc = "reporting" })
    + (IF run_id = id /\ pc = "reporting" THEN 1 ELSE 0)

\* C28: at most one task generates the report of a run at a time.
C28_OneReportTask ==
    \A id \in DOMAIN runs : Reporting(id) <= 1

-----------------------------------------------------------------------------
(* The choice of a record. *)

\* The letters the prompt of question i offers.
Offered(i) ==
    { Lit(ascii_uppercase[k], 1) : k \in 1..Len(quiz.questions[i].options) }

\* C24: a record that is not refused has a choice that is not empty.
C24_AnsweredHasChoice ==
    \A i \in 1..Len(model_records) :
        ~model_records[i].refused => model_records[i].choice # EmptyStr

\* C25: a record that is not refused has one of the letters of its
\* question's options as its choice (stated for the records that name a
\* choice; those without one are the case of C24).
C25_ChoiceWasOffered ==
    \A i \in 1..Len(model_records) :
        (~model_records[i].refused /\ model_records[i].choice # EmptyStr)
            => model_records[i].choice \in Offered(i)

-----------------------------------------------------------------------------
(* The lists of succeeded and failed models. *)

\* The ids of the models run_quiz lists as failed.
FailedIds == { failed_adapters[i].id : i \in DOMAIN failed_adapters }

\* The models that have rows of the run in results.
Persisted == { RunRows[i].model_id : i \in DOMAIN RunRows }

\* C26: when run_quiz has ended, over a quiz with a question, every adapter
\* is in one of the two lists and in one only, each list names an adapter
\* once, and the models with rows of the run are those of the succeeded
\* list: a failed model has no row.
C26_ListsPartition ==
    (Completed /\ N >= 1) =>
        /\ Range(successful_adapters) \cup FailedIds = Range(adapters)
        /\ Range(successful_adapters) \cap FailedIds = {}
        /\ Len(successful_adapters) + Len(failed_adapters) = M
        /\ Persisted = Range(successful_adapters)
        /\ \A m \in FailedIds : RowsOf(m) = << >>

\* run_quiz has ended with two models failed, after each had answered a
\* question; and no row is written.
C26_Witness ==
    /\ Completed
    /\ N = 2
    /\ M = 2
    /\ Len(failed_adapters) = 2
    /\ Len(resolved) = 4
    /\ RunRows = << >>

-----------------------------------------------------------------------------
(* The end of a run. *)

\* The run has the status the server gives to a run that has ended.
Ended(id) == id \in DOMAIN runs /\ runs[id].status \in { "completed", "failed" }

\* C27: a run that create_run has inserted is completed or failed at some
\* later time.
C27_RunsEnd ==
    \A id \in { "run1" } : (id \in DOMAIN runs) ~> Ended(id)

=============================================================================
